---- MODULE Spec2Model ----
(***************************************************************************)
(* Camola (webcam-fx): the RobustVideoMatting segmentation engine with its *)
(* recurrent hidden state, and the run_pipeline frame loop around it.      *)
(*                                                                         *)
(* Spec      drives one engine with arbitrary segment / reset_state /      *)
(*           input_size calls (the SegmentationModel trait's clients).     *)
(* PipeSpec  is run_pipeline with its capture, segmentation and output     *)
(*           collaborators.                                                *)
(***************************************************************************)
EXTENDS Integers, Sequences, FiniteSets, TLC

\* ------------------------------------------------------------------ bounds
\* engine invocations (session.run calls) explored by Spec
MaxCalls == 3
\* frames written by run_pipeline explored by PipeSpec
MaxFrames == 61
MaxSide == 3

\* ------------------------------------------------------- program constants
DefaultWidth == 512
DefaultHeight == 512
\* downsample_ratio 0.25, kept exact as a fraction
RatioNum == 1
RatioDen == 4
StatsEvery == 30
DefaultFps == 30

\* ------------------------------------------------------------ Option<T>
None == <<>>
Some(x) == <<x>>
Unwrap(o) == o[1]

\* ------------------------------------------------------------- tensors
\* An Array4<f32>: its shape and its contents.  The contents are named by
\* where they were produced: inv = 0 is a buffer of zeros, inv = k > 0 is
\* output number out (0-based, as in outputs[out]) of the k-th session.run.
Tensor(shape, inv, out) == [shape |-> shape, inv |-> inv, out |-> out]
zeros(shape) == Tensor(shape, 0, 0)

RECURSIVE Product(_)
Product(s) == IF s = <<>> THEN 1 ELSE s[1] * Product(Tail(s))

\* --------------------------------------------------------------- frames
\* An RgbImage: dimensions and pixel contents (px names the contents);
\* seq is the ordinal of the capture that produced it (0 outside the loop).
Frame(w, h, px, seq) == [width |-> w, height |-> h, px |-> px, seq |-> seq]
FrameDims == {<<512, 512>>, <<640, 480>>}
Pixels == {<<"cam", 1>>, <<"cam", 2>>}
Frames(seq) == {Frame(d[1], d[2], p, seq) : d \in FrameDims, p \in Pixels}

\* image::imageops::resize(image, nwidth, nheight, Lanczos3)
resize(image, nwidth, nheight) ==
    Frame(nwidth, nheight,
          <<"resized", image.px, image.width, image.height, nwidth, nheight>>,
          image.seq)

\* --------------------------------------------------------- Preprocessor
\* Preprocessor::new
Preprocessor_new(target_width, target_height) ==
    [target_width |-> target_width, target_height |-> target_height]

\* preprocess, had it built the tensor from the image as it came in
preprocess_as_given(p, image) ==
    [shape |-> <<1, 3, image.height, image.width>>, px |-> image.px, resized |-> FALSE]

\* Preprocessor::preprocess: resize when the dimensions differ, then a
\* [1, 3, height, width] tensor of the (resized) pixels divided by 255.
\* The tensor is kept as its shape and the image it was filled from;
\* TensorAt gives its elements.
preprocess(p, image) ==
    LET differ == <<image.width, image.height>> # <<p.target_width, p.target_height>>
        resized == IF differ THEN resize(image, p.target_width, p.target_height)
                   ELSE image
    IN [shape |-> <<1, 3, resized.height, resized.width>>, px |-> resized.px,
        resized |-> differ]

\* A matte (Vec<f32>): its length, the invocation whose alpha output it came
\* from, and the 8-bit resize of postprocess_matte it went through: <<>> for
\* none, else <<matte_width, matte_height, target_width, target_height>>.
Matte(len, inv, resized) == [len |-> len, inv |-> inv, resized |-> resized]

\* Matte values are counted in units of 1/255000, so that both v/1000 and
\* k/255 are whole numbers.  PhaVal is element idx of the alpha output of
\* invocation inv: values from -0.2 to 1.2, different from index to index.
PhaVal(inv, idx) == (((idx * 7 + inv * 301) % 1401) - 200) * 255

\* (value * 255.0).clamp(0.0, 255.0) as u8
Gray(u) == IF u < 0 THEN 0 ELSE IF u > 255000 THEN 255 ELSE u \div 1000

\* matte[idx].  A resized matte holds p[0] as f32 / 255.0 of the resized
\* grayscale image; nearest-neighbour sampling stands for the Lanczos3
\* filter of imageops::resize, whose arithmetic is not modelled.
MatteAt(m, idx) ==
    IF m.resized = <<>> THEN PhaVal(m.inv, idx)
    ELSE LET mw == m.resized[1]
             mh == m.resized[2]
             tw == m.resized[3]
             th == m.resized[4]
             sx == ((idx % tw) * mw) \div tw
             sy == ((idx \div tw) * mh) \div th
         IN Gray(PhaVal(m.inv, sy * mw + sx)) * 1000

\* postprocess_matte, had it lacked the early return for equal dimensions
postprocess_matte_always(matte, matte_width, matte_height, target_width, target_height) ==
    IF matte_width * matte_height > matte.len
    THEN <<"panic">>
    ELSE <<"ok", Matte(target_width * target_height, matte.inv,
                       <<matte_width, matte_height, target_width, target_height>>)>>

\* postprocess_matte, had it handed back the matte at its native size
postprocess_matte_native(matte, matte_width, matte_height, target_width, target_height) ==
    <<"ok", matte>>

\* Preprocessor::postprocess_matte.  Returns <<"ok", matte>> or <<"panic">>
\* (matte[idx] out of range while building the grayscale image).
postprocess_matte(matte, matte_width, matte_height, target_width, target_height) ==
    IF matte_width = target_width /\ matte_height = target_height
    THEN <<"ok", matte>>
    ELSE IF matte_width * matte_height > matte.len
    THEN <<"panic">>
    ELSE <<"ok", Matte(target_width * target_height, matte.inv,
                       <<matte_width, matte_height, target_width, target_height>>)>>

\* ---------------------------------------------------- RobustVideoMatting
\* RobustVideoMatting::new (the session itself is the external engine)
RobustVideoMatting_new ==
    [preprocessor |-> Preprocessor_new(DefaultWidth, DefaultHeight),
     width |-> DefaultWidth,
     height |-> DefaultHeight,
     r1 |-> None, r2 |-> None, r3 |-> None, r4 |-> None,
     downsample_ratio |-> <<RatioNum, RatioDen>>]

\* The four hidden-state fields of an engine
Hidden(self) == <<self.r1, self.r2, self.r3, self.r4>>

\* (x as f32 * downsample_ratio) as usize
Scale(x, ratio) == (x * ratio[1]) \div ratio[2]

\* init_hidden_states, had it stored the scaled size back into the engine
init_hidden_states_clobber(self) ==
    LET h == Scale(self.height, self.downsample_ratio)
        w == Scale(self.width, self.downsample_ratio)
    IN [self EXCEPT !.height = h, !.width = w,
                    !.r1 = Some(zeros(<<1, 16, h, w>>)),
                    !.r2 = Some(zeros(<<1, 20, h \div 2, w \div 2>>)),
                    !.r3 = Some(zeros(<<1, 24, h \div 4, w \div 4>>)),
                    !.r4 = Some(zeros(<<1, 28, h \div 8, w \div 8>>))]

\* init_hidden_states, had the halvings rounded up
init_hidden_states_ceil(self) ==
    LET h == Scale(self.height, self.downsample_ratio)
        w == Scale(self.width, self.downsample_ratio)
    IN [self EXCEPT !.r1 = Some(zeros(<<1, 16, h, w>>)),
                    !.r2 = Some(zeros(<<1, 20, (h + 1) \div 2, (w + 1) \div 2>>)),
                    !.r3 = Some(zeros(<<1, 24, (h + 3) \div 4, (w + 3) \div 4>>)),
                    !.r4 = Some(zeros(<<1, 28, (h + 7) \div 8, (w + 7) \div 8>>))]

\* RobustVideoMatting::init_hidden_states
init_hidden_states(self) ==
    LET h == Scale(self.height, self.downsample_ratio)
        w == Scale(self.width, self.downsample_ratio)
    IN [self EXCEPT !.r1 = Some(zeros(<<1, 16, h, w>>)),
                    !.r2 = Some(zeros(<<1, 20, h \div 2, w \div 2>>)),
                    !.r3 = Some(zeros(<<1, 24, h \div 4, w \div 4>>)),
                    !.r4 = Some(zeros(<<1, 28, h \div 8, w \div 8>>))]

\* ------------------------------------------- the external inference engine
\* A value returned by session.run: its element type and its shape; the
\* data length is the product of the shape.
OutValue(f32, shape) == [f32 |-> f32, shape |-> shape]

\* The six outputs of a well-behaved model at spatial size n (hidden states
\* at n/4): fgr, pha, r1o, r2o, r3o, r4o.
GoodOutputs(n) ==
    <<OutValue(TRUE, <<1, 3, n, n>>),
      OutValue(TRUE, <<1, 1, n, n>>),
      OutValue(TRUE, <<1, 16, n \div 4, n \div 4>>),
      OutValue(TRUE, <<1, 20, n \div 8, n \div 8>>),
      OutValue(TRUE, <<1, 24, n \div 16, n \div 16>>),
      OutValue(TRUE, <<1, 28, n \div 32, n \div 32>>)>>

\* Native resolutions a model may answer with
NativeSizes == {512, 100}

\* Malformed values: wrong element type, rank 3, rank 5.
BadValues ==
    {OutValue(FALSE, <<1, 1, 8, 8>>),
     OutValue(TRUE, <<1, 8, 8>>),
     OutValue(TRUE, <<1, 1, 8, 8, 2>>)}

\* What the environment does during one segment call: value_fail = i > 0
\* makes the i-th Value::from_array fail; run_ok = FALSE makes session.run
\* fail; otherwise session.run returns outputs.
Env(value_fail, run_ok, outputs) ==
    [value_fail |-> value_fail, run_ok |-> run_ok, outputs |-> outputs]

Envs ==
    {Env(i, TRUE, <<>>) : i \in 1..5}
    \cup {Env(0, FALSE, <<>>)}
    \cup {Env(0, TRUE, GoodOutputs(n)) : n \in NativeSizes}
    \cup {Env(0, TRUE, SubSeq(GoodOutputs(512), 1, n)) : n \in 0..5}
    \cup {Env(0, TRUE, [GoodOutputs(512) EXCEPT ![j] = b]) : j \in 2..6, b \in BadValues}

\* What one segment call did: the engine afterwards, how the call ended
\* ("ok" = Ok(matte), "err" = Err returned, "panic" = the thread panicked),
\* the five tensors handed to session.run if it was reached, and the matte.
Outcome(self, result, fed, matte) ==
    [self |-> self, result |-> result, fed |-> fed, matte |-> matte]

\* ExtractHidden, had it read outputs[i - 1] (pha taken for r1, and so on)
ExtractHidden_shifted(outputs, i, inv) ==
    IF Len(outputs) < i THEN <<"panic">>
    ELSE LET v == outputs[i] IN
         IF ~v.f32 THEN <<"err">>
         ELSE IF Len(v.shape) < 4 THEN <<"panic">>
         ELSE IF Product(SubSeq(v.shape, 1, 4)) # Product(v.shape) THEN <<"err">>
         ELSE <<"ok", Tensor(SubSeq(v.shape, 1, 4), inv, i)>>

\* outputs[i].try_extract_tensor::<f32>()? followed by
\* Array4::from_shape_vec((shape[0], shape[1], shape[2], shape[3]), data)?
\* for the hidden state i of invocation inv (rvm.rs 168-198).
ExtractHidden(outputs, i, inv) ==
    IF Len(outputs) < i + 1 THEN <<"panic">>
    ELSE LET v == outputs[i + 1] IN
         IF ~v.f32 THEN <<"err">>
         ELSE IF Len(v.shape) < 4 THEN <<"panic">>
         ELSE IF Product(SubSeq(v.shape, 1, 4)) # Product(v.shape) THEN <<"err">>
         ELSE <<"ok", Tensor(SubSeq(v.shape, 1, 4), inv, i)>>

\* RobustVideoMatting::segment, rvm.rs 161-210: everything after session.run
\* returned outputs to invocation inv.
segment_outputs(s0, frame, fed, outputs, inv) ==
    IF Len(outputs) < 2 THEN Outcome(s0, "panic", fed, None)
    ELSE IF ~outputs[2].f32 THEN Outcome(s0, "err", fed, None)
    ELSE IF Len(outputs[2].shape) < 4 THEN Outcome(s0, "panic", fed, None)
    ELSE
    LET pha_shape == outputs[2].shape
        matte_height == pha_shape[3]
        matte_width == pha_shape[4]
        matte_flat == Matte(Product(pha_shape), inv, <<>>)
        x1 == ExtractHidden(outputs, 2, inv)
    IN IF x1[1] # "ok" THEN Outcome(s0, x1[1], fed, None) ELSE
    LET s1 == [s0 EXCEPT !.r1 = Some(x1[2])]
        x2 == ExtractHidden(outputs, 3, inv)
    IN IF x2[1] # "ok" THEN Outcome(s1, x2[1], fed, None) ELSE
    LET s2 == [s1 EXCEPT !.r2 = Some(x2[2])]
        x3 == ExtractHidden(outputs, 4, inv)
    IN IF x3[1] # "ok" THEN Outcome(s2, x3[1], fed, None) ELSE
    LET s3 == [s2 EXCEPT !.r3 = Some(x3[2])]
        x4 == ExtractHidden(outputs, 5, inv)
    IN IF x4[1] # "ok" THEN Outcome(s3, x4[1], fed, None) ELSE
    LET s4 == [s3 EXCEPT !.r4 = Some(x4[2])]
        final_matte == postprocess_matte(matte_flat, matte_width, matte_height,
                                         frame.width, frame.height)
    IN IF final_matte[1] # "ok" THEN Outcome(s4, "panic", fed, None)
       ELSE Outcome(s4, "ok", fed, Some(final_matte[2]))

\* RobustVideoMatting::segment; inv numbers the session.run call it makes.
segment(self, frame, env, inv) ==
    LET s0 == IF self.r1 = None THEN init_hidden_states(self) ELSE self
        input_tensor == preprocess(s0.preprocessor, frame)
    IN IF s0.r2 = None \/ s0.r3 = None \/ s0.r4 = None
       THEN Outcome(s0, "panic", None, None)
       ELSE IF env.value_fail # 0 THEN Outcome(s0, "err", None, None)
       ELSE
       LET fed == Some(<<input_tensor, Unwrap(s0.r1), Unwrap(s0.r2),
                         Unwrap(s0.r3), Unwrap(s0.r4)>>)
       IN IF ~env.run_ok THEN Outcome(s0, "err", fed, None)
          ELSE segment_outputs(s0, frame, fed, env.outputs, inv)

\* reset_state, had the trait's default no-op been left in place
reset_state_noop(self) == self

\* reset_state, had it cleared r1 only
reset_state_partial(self) == [self EXCEPT !.r1 = None]

\* reset_state, had it left r1 in place
reset_state_keeps_r1(self) == [self EXCEPT !.r2 = None, !.r3 = None, !.r4 = None]

\* RobustVideoMatting::reset_state
reset_state(self) ==
    [self EXCEPT !.r1 = None, !.r2 = None, !.r3 = None, !.r4 = None]

\* RobustVideoMatting::input_size
input_size(self) == <<self.width, self.height>>

\* matte_to_rgb, had it indexed the matte by y * height + x
matte_to_rgb_by_height(matte, width, height, seq) ==
    IF width * height > matte.len THEN <<"panic">>
    ELSE <<"ok", Frame(width, height,
                       <<"matte", matte.inv, matte.resized, height>>, seq)>>

\* Preprocessor::matte_to_rgb.  <<"ok", image>> or <<"panic">> (matte[idx]
\* out of range).  The image is kept as the matte it renders and the row
\* stride of idx = y * width + x; PixelAt gives its pixels.
matte_to_rgb(matte, width, height, seq) ==
    IF width * height > matte.len THEN <<"panic">>
    ELSE <<"ok", Frame(width, height,
                       <<"matte", matte.inv, matte.resized, width>>, seq)>>

\* Pixel (x, y) of camera content id: some R, G, B that vary with x and y
CamPixel(id, x, y) ==
    <<(id * 53 + x * 31 + y * 17) % 256,
      (id * 91 + x * 7 + y * 113) % 256,
      (id * 29 + x * 201 + y * 5) % 256>>

\* image.get_pixel(x, y) for the contents px: a camera image, a solid
\* colour, a rendered matte, or a resized image (nearest-neighbour sampling
\* standing for the Lanczos3 filter).
RECURSIVE PxAt(_, _, _)
PxAt(px, x, y) ==
    IF px[1] = "cam" THEN CamPixel(px[2], x, y)
    ELSE IF px[1] = "solid" THEN px[2]
    ELSE IF px[1] = "matte"
    THEN LET g == Gray(MatteAt(Matte(0, px[2], px[3]), y * px[4] + x))
         IN <<g, g, g>>
    ELSE IF px[1] = "resized"
    THEN PxAt(px[2], (x * px[3]) \div px[5], (y * px[4]) \div px[6])
    ELSE <<0, 0, 0>>

PixelAt(f, x, y) == PxAt(f.px, x, y)

\* tensor[[0, c, y, x]] of an input tensor, in units of 1/255000:
\* pixel[c] as f32 / 255.0 of the image it was filled from
TensorAt(t, c, y, x) == PxAt(t.px, x, y)[c + 1] * 1000

\* ------------------------------------------------------------ V4L2Output
\* V4L2Output::new (what the device file receives is part of write_frame's
\* outcome)
V4L2Output_new(width, height) == [width |-> width, height |-> height]

\* A value in thousandths, .clamp(0.0, 255.0) as u8
ClampByte(t) == IF t < 0 THEN 0 ELSE IF t > 255000 THEN 255 ELSE t \div 1000

\* rgb_to_yuv, had it read the channels in B, G, R order
rgb_to_yuv_bgr(r, g, b) ==
    <<ClampByte(299 * b + 587 * g + 114 * r),
      ClampByte(436 * r - 147 * b - 289 * g + 128000),
      ClampByte(615 * b - 515 * g - 100 * r + 128000)>>

\* rgb_to_yuv: the coefficients in thousandths (0.299 is 299); the f32
\* rounding of a sum that lands exactly on a whole number is not modelled.
rgb_to_yuv(r, g, b) ==
    <<ClampByte(299 * r + 587 * g + 114 * b),
      ClampByte(436 * b - 147 * r - 289 * g + 128000),
      ClampByte(615 * r - 515 * g - 100 * b + 128000)>>

\* pixel2, had the trailing pixel of an odd row been paired with black
second_pixel_black(rgb_image, x, y) ==
    IF x + 1 < rgb_image.width THEN PixelAt(rgb_image, x + 1, y)
    ELSE <<0, 0, 0>>

\* pixel2 of rgb_to_yuyv: the right neighbour, or pixel1 itself at the end
\* of a row of odd width
second_pixel(rgb_image, x, y) ==
    IF x + 1 < rgb_image.width THEN PixelAt(rgb_image, x + 1, y)
    ELSE PixelAt(rgb_image, x, y)

\* The two loops of rgb_to_yuyv from column x of row y onwards
RECURSIVE yuyv_from(_, _, _)
yuyv_from(rgb_image, x, y) ==
    IF y >= rgb_image.height THEN <<>>
    ELSE IF x >= rgb_image.width THEN yuyv_from(rgb_image, 0, y + 1)
    ELSE LET pixel1 == PixelAt(rgb_image, x, y)
             pixel2 == second_pixel(rgb_image, x, y)
             c1 == rgb_to_yuv(pixel1[1], pixel1[2], pixel1[3])
             c2 == rgb_to_yuv(pixel2[1], pixel2[2], pixel2[3])
             u == (c1[2] + c2[2]) \div 2
             v == (c1[3] + c2[3]) \div 2
         IN <<c1[1], u, c2[1], v>> \o yuyv_from(rgb_image, x + 2, y)

\* V4L2Output::rgb_to_yuyv
rgb_to_yuyv(rgb_image) == yuyv_from(rgb_image, 0, 0)

\* write_frame, had it encoded the frame at the size it came in
write_frame_as_given(self, frm, io) ==
    LET yuyv_data == rgb_to_yuyv(frm)
    IN IF io.ok
       THEN [result |-> "ok", encoded |-> frm, device |-> yuyv_data]
       ELSE [result |-> "err", encoded |-> frm,
             device |-> SubSeq(yuyv_data, 1, IF io.n < Len(yuyv_data) THEN io.n ELSE Len(yuyv_data))]

\* V4L2Output::write_frame under the device's behaviour io: write_all
\* takes everything, or fails after taking io.n bytes.  Gives the result,
\* the image that was encoded and the bytes the device received.
write_frame(self, frm, io) ==
    LET resized == IF <<frm.width, frm.height>> # <<self.width, self.height>>
                   THEN resize(frm, self.width, self.height)
                   ELSE frm
        yuyv_data == rgb_to_yuyv(resized)
    IN IF io.ok
       THEN [result |-> "ok", encoded |-> resized, device |-> yuyv_data]
       ELSE [result |-> "err", encoded |-> resized,
             device |-> SubSeq(yuyv_data, 1, IF io.n < Len(yuyv_data) THEN io.n ELSE Len(yuyv_data))]

\* V4L2Output::resolution
resolution(self) == <<self.width, self.height>>

\* ----------------------------------------------------------------- state
VARIABLES
    model,                \* Option<Box<dyn SegmentationModel>>: the engine
    last,                 \* the last engine call and what it did
    segments,             \* segment calls made so far
    reported_size,        \* what the last input_size call returned
    pc,                   \* run_pipeline's position ("client": not running)
    ret,                  \* run_pipeline's return value
    show_matte,           \* run_pipeline's argument
    frame_duration,       \* microseconds
    frame,                \* the frame captured in this iteration
    output_frame,         \* the frame selected for output
    frame_count,
    total_capture_time,
    total_segment_time,
    total_output_time,
    elapsed,              \* time since loop_start, microseconds
    reports,              \* the statistics events emitted
    captures,             \* capture_frame calls that returned a frame
    writes,               \* write_frame calls the sink received
    written,              \* the frame of the last write_frame call
    stage,                \* the last collaborator call of run_pipeline
    slept,                \* the last iteration's thread::sleep argument
    interval,             \* the last iteration's start-to-start time
    overran,              \* some completed iteration exceeded the period
    sink,                 \* a V4L2Output used on its own
    call                  \* the last call of a conversion and its result

engine_vars == <<model, last, segments, reported_size>>
pipe_vars == <<pc, ret, show_matte, frame_duration, frame, output_frame,
               frame_count, total_capture_time, total_segment_time,
               total_output_time, elapsed, reports, captures, writes, written,
               stage, slept, interval, overran>>
codec_vars == <<sink, call>>
vars == <<model, last, segments, reported_size, pc, ret, show_matte, frame_duration, frame,
          output_frame, frame_count, total_capture_time, total_segment_time,
          total_output_time, elapsed, reports, captures, writes, written,
          stage, slept, interval, overran, sink, call>>

\* The record of a call on the engine: op, the call before it (its op and
\* the hidden state that one started from), how this call ended, the hidden
\* state before it, the frame it was given, what was fed to session.run,
\* what session.run returned, the value handed back.
Call(op, prior, result, pre, frm, fed, outputs, value) ==
    [op |-> op, after |-> prior.op, before |-> prior.pre, result |-> result,
     pre |-> pre, frame |-> frm, fed |-> fed, outputs |-> outputs,
     value |-> value]

Absent == <<None, None, None, None>>

NoCall == Call("new", [op |-> "none", pre |-> Absent], "ok", Absent, None, None, <<>>, None)

Eng == Unwrap(model)

\* The thread has not panicked
Alive == last.result # "panic" /\ pc # "panicked"

\* One call of model.segment(&frame) under environment env, with outcome o
CallSegment(f, env, o) ==
    /\ model' = Some(o.self)
    /\ segments' = segments + 1
    /\ last' = Call("segment", last, o.result, Hidden(Eng), Some(f), o.fed,
                    IF o.fed # None /\ env.run_ok THEN env.outputs ELSE <<>>,
                    o.matte)

NoConversion ==
    [op |-> "none", arg |-> None, dims |-> <<>>, result |-> <<>>, again |-> FALSE]

InitCodecVars ==
    /\ sink = None
    /\ call = NoConversion

InitPipeVars(p) ==
    /\ pc = p
    /\ ret = None
    /\ frame = None
    /\ output_frame = None
    /\ frame_count = 0
    /\ total_capture_time = 0
    /\ total_segment_time = 0
    /\ total_output_time = 0
    /\ elapsed = 0
    /\ reports = <<>>
    /\ captures = 0
    /\ writes = 0
    /\ written = None
    /\ stage = [n |-> 0, op |-> "none", res |-> "ok"]
    /\ slept = None
    /\ interval = 0
    /\ overran = FALSE

\* ------------------------------------------------- Spec: the engine alone
Init ==
    /\ model = Some(RobustVideoMatting_new)
    /\ last = NoCall
    /\ segments = 0
    /\ reported_size = None
    /\ show_matte = FALSE
    /\ frame_duration = 1000000 \div DefaultFps
    /\ InitPipeVars("client")
    /\ InitCodecVars

Segment ==
    /\ pc = "client" /\ Alive
    /\ segments < MaxCalls
    /\ \E f \in Frames(0), env \in Envs :
       \E o \in {segment(Eng, f, env, segments + 1)} : CallSegment(f, env, o)
    /\ UNCHANGED <<reported_size, pipe_vars, codec_vars>>

ResetState ==
    /\ pc = "client" /\ Alive
    /\ model' = Some(reset_state(Eng))
    /\ last' = Call("reset_state", last, "ok", Hidden(Eng), None, None, <<>>, None)
    /\ UNCHANGED <<segments, reported_size, pipe_vars, codec_vars>>

InputSize ==
    /\ pc = "client" /\ Alive
    /\ reported_size' = Some(input_size(Eng))
    /\ UNCHANGED <<model, last, segments, pipe_vars, codec_vars>>

Next == Segment \/ ResetState \/ InputSize

Spec == Init /\ [][Next]_vars

\* ------------------------------------------------------- engine properties
\* The zero tensors init_hidden_states derives from the configured size
ZeroState(self) == Hidden(init_hidden_states(self))

\* The hidden states handed to session.run by the last segment call
FedHidden(c) == SubSeq(Unwrap(c.fed), 2, 5)

\* C1 (as claimed): a segment call that returns an error leaves the stored
\* recurrent state (r1, r2, r3, r4) exactly as it was before the call.
C1_FailedSegmentKeepsState ==
    (last.op = "segment" /\ last.result = "err") => Hidden(Eng) = last.pre

\* C2 (as claimed): the four stored tensors always come from one source: all
\* absent, all from the zero initialisation, or all from one invocation.
C2_SameSource ==
    \/ last.result = "panic"
    \/ Hidden(Eng) = Absent
    \/ /\ \A i \in 1..4 : Hidden(Eng)[i] # None
       /\ \A i, j \in 1..4 : Unwrap(Hidden(Eng)[i]).inv = Unwrap(Hidden(Eng)[j]).inv

\* C3: the first segment call after reset_state hands session.run four
\* all-zero hidden states of the shapes derived from the configured input
\* resolution, whatever the state was before the reset.
C3_ZeroAfterReset ==
    (last.op = "segment" /\ last.after = "reset_state" /\ last.fed # None)
        => /\ FedHidden(last) = [i \in 1..4 |-> Unwrap(ZeroState(Eng)[i])]
           /\ FedHidden(last) = <<zeros(<<1, 16, 128, 128>>), zeros(<<1, 20, 64, 64>>),
                                  zeros(<<1, 24, 32, 32>>), zeros(<<1, 28, 16, 16>>)>>

C3_Witness ==
    /\ last.op = "segment" /\ last.after = "reset_state" /\ last.fed # None
    /\ last.pre = Absent
    /\ \A i \in 1..4 : last.before[i] # None /\ Unwrap(last.before[i]).inv > 0

\* C4: when a successful segment call directly follows a successful segment
\* call, it hands session.run exactly the four tensors that outputs[2..5]
\* of the earlier call held, in the order r1..r4; the first segment call
\* after construction hands it the zero tensors.
C4_Chaining ==
    [][(segments' = segments + 1 /\ last'.fed # None)
        => /\ (last.op = "segment" /\ last.result = "ok" /\ last'.result = "ok")
                => /\ Len(last.outputs) >= 6
                   /\ FedHidden(last') =
                        [i \in 1..4 |-> Tensor(last.outputs[i + 2].shape, segments, i + 1)]
           /\ last.op = "new" => FedHidden(last') = [i \in 1..4 |-> Unwrap(ZeroState(Eng)[i])]
      ]_vars

C4_Witness ==
    /\ last.op = "segment" /\ last.after = "segment" /\ last.result = "ok"
    /\ \A i \in 1..4 : last.pre[i] # None /\ Unwrap(last.pre[i]).inv = segments - 1
    /\ \E i \in 1..4 : Unwrap(last.pre[i]).shape # Unwrap(ZeroState(Eng)[i]).shape
    /\ FedHidden(last) = [i \in 1..4 |-> Unwrap(last.pre[i])]

\* C5: reset_state always succeeds and leaves the recurrent state absent,
\* and a reset_state directly after a reset_state changes nothing in the engine.
C5_ResetIdempotent ==
    [][(last'.op = "reset_state" /\ last' # last)
        => /\ last'.result = "ok"
           /\ Hidden(Unwrap(model')) = Absent
           /\ Unwrap(model') = [Eng EXCEPT !.r1 = None, !.r2 = None, !.r3 = None, !.r4 = None]
           /\ last.op = "reset_state" => model' = model
      ]_vars

C5_Witness ==
    /\ last.op = "reset_state" /\ last.after = "reset_state"
    /\ last.before # Absent
    /\ Hidden(Eng) = Absent

\* C6: input_size returns the resolution fixed at construction, 512x512,
\* after any sequence of segment and reset_state calls.
C6_InputSizeFixed ==
    /\ reported_size # None => reported_size = Some(<<512, 512>>)
    /\ input_size(Eng) = <<RobustVideoMatting_new.width, RobustVideoMatting_new.height>>

C6_Witness ==
    /\ reported_size = Some(<<512, 512>>)
    /\ segments >= 2
    /\ last.op = "segment" /\ last.result = "err"
    /\ last.frame # None /\ Unwrap(last.frame).width # 512

\* ------------------------------------------- PipeSpec: run_pipeline (main.rs)
\* Stage durations seen by the Instant clock (microseconds), and the time an
\* iteration spends outside the three timed stages.
StageTime == [capture |-> 5000, segment |-> 20000, output |-> 3000]
Extras == {0, 5333, 30000}
\* --fps is any u32; nothing validates it
TargetFps == {0, DefaultFps}

\* What capture_frame returns as the seq-th frame
CapturedFrames(seq) == {Frame(d[1], d[2], <<"cam", seq>>, seq) : d \in FrameDims}

\* Duration::from_secs_f32(1.0 / target_fps as f32), in microseconds; at
\* target_fps = 0 the quotient is infinite and no Duration comes back
FrameDuration(target_fps) ==
    IF target_fps = 0 THEN 0 ELSE 1000000 \div target_fps

\* Where run_pipeline stands once frame_duration is computed:
\* Duration::from_secs_f32 panics on a value that is not finite
Start(target_fps) == IF target_fps = 0 THEN "panicked" ELSE "capture"

\* The n-th collaborator call of the loop: which one, and how it ended
Stage(op, res) == [n |-> stage.n + 1, op |-> op, res |-> res]

\* `?`, had the loop logged the error and gone on to the next iteration
Propagate_continue(context) == [pc |-> "capture", ret |-> None]

\* `?` on a failed stage: run_pipeline returns the error with its context
Propagate(context) == [pc |-> "done", ret |-> Some(context)]

\* passthrough, had it handed on a blank image of the same size
passthrough_blank(f) == Frame(f.width, f.height, <<"blank">>, f.seq)

\* main.rs 162-165: passthrough mode uses the captured frame
passthrough(f) == f

\* stats_due, had the test been made before frame_count += 1
stats_due_before(count) == (count - 1) % StatsEvery = 0

\* main.rs 178: statistics are logged when frame_count % 30 == 0
stats_due(count) == count % StatsEvery = 0

\* main.rs 179-204: the statistics event
Report(count, capture_t, segment_t, output_t, has_model) ==
    LET avg_capture == capture_t \div count
        avg_segment == segment_t \div count
        avg_output == output_t \div count
        total == avg_capture + avg_segment + avg_output
    IN [frame |-> count, capture |-> avg_capture,
        segment |-> IF has_model THEN Some(avg_segment) ELSE None,
        output |-> avg_output, total |-> total,
        fps |-> IF total = 0 THEN None ELSE Some(1000000 \div total)]

\* sleep_for, had the loop always slept one whole period
sleep_for_full(elapsed_time, period) == Some(period)

\* main.rs 208-211: the argument of thread::sleep, None when it is not called
sleep_for(elapsed_time, period) ==
    IF elapsed_time < period THEN Some(period - elapsed_time) ELSE None

\* The loop body, had the next capture been started right after the write
Following_pipelined(at) ==
    CASE at = "capture" -> "segment"
      [] at = "segment" -> "write"
      [] at = "write" -> "capture"
      [] at = "pace" -> "capture"

\* The statement that follows a completed step of the loop body: capture,
\* then the model branch or the passthrough branch, then write_frame with
\* the bookkeeping, then the rate limiting, then the next iteration
Following(at) ==
    CASE at = "capture" -> "segment"
      [] at = "segment" -> "write"
      [] at = "write" -> "pace"
      [] at = "pace" -> "capture"

PipeInit ==
    /\ model \in {None, Some(RobustVideoMatting_new)}
    /\ last = NoCall
    /\ segments = 0
    /\ reported_size = None
    /\ show_matte \in BOOLEAN
    /\ \E fps \in TargetFps :
          /\ frame_duration = FrameDuration(fps)
          /\ InitPipeVars(Start(fps))
    /\ InitCodecVars

\* main.rs 134-142
CaptureFrame ==
    /\ pc = "capture" /\ frame_count < MaxFrames
    /\ \/ /\ pc' = Propagate("Failed to capture frame").pc
          /\ ret' = Propagate("Failed to capture frame").ret
          /\ stage' = Stage("capture", "err")
          /\ UNCHANGED <<frame, captures, total_capture_time, elapsed, slept, interval>>
       \/ \E f \in CapturedFrames(captures + 1) :
          /\ frame' = Some(f)
          /\ captures' = captures + 1
          /\ total_capture_time' = total_capture_time + StageTime.capture
          /\ elapsed' = StageTime.capture
          /\ slept' = None
          /\ interval' = 0
          /\ stage' = Stage("capture", "ok")
          /\ pc' = Following("capture")
          /\ ret' = ret
    /\ output_frame' = None
    /\ UNCHANGED <<codec_vars, engine_vars, show_matte, frame_duration, frame_count,
                   total_segment_time, total_output_time, reports, writes,
                   written, overran>>

\* select_output, had the matte been shown whatever show_matte says
select_output_matte(show, shown, captured) == Some(shown[2])

\* main.rs 153-161: the matte visualisation if show_matte, else the frame
select_output(show, shown, captured) ==
    IF show THEN Some(shown[2]) ELSE captured

\* main.rs 145-161: a model is loaded
SegmentFrame ==
    /\ pc = "segment" /\ model # None
    /\ \E env \in Envs, f \in {Unwrap(frame)} :
       \E o \in {segment(Eng, f, env, segments + 1)} :
       LET shown == matte_to_rgb(Unwrap(o.matte), f.width, f.height, f.seq)
       IN /\ CallSegment(f, env, o)
          /\ stage' = Stage("segment", o.result)
          /\ IF o.result = "panic" \/ (o.result = "ok" /\ show_matte /\ shown[1] = "panic")
             THEN /\ pc' = "panicked"
                  /\ UNCHANGED <<ret, output_frame, total_segment_time, elapsed>>
             ELSE IF o.result = "err"
             THEN /\ pc' = Propagate("Failed to segment frame").pc
                  /\ ret' = Propagate("Failed to segment frame").ret
                  /\ UNCHANGED <<output_frame, total_segment_time, elapsed>>
             ELSE /\ total_segment_time' = total_segment_time + StageTime.segment
                  /\ elapsed' = elapsed + StageTime.segment
                  /\ output_frame' = select_output(show_matte, shown, frame)
                  /\ pc' = Following("segment")
                  /\ ret' = ret
    /\ UNCHANGED <<codec_vars, reported_size, show_matte, frame_duration, frame, frame_count,
                   total_capture_time, total_output_time, reports, captures,
                   writes, written, slept, interval, overran>>

\* main.rs 162-165: no model
Passthrough ==
    /\ pc = "segment" /\ model = None
    /\ output_frame' = Some(passthrough(Unwrap(frame)))
    /\ pc' = Following("segment")
    /\ UNCHANGED <<codec_vars, engine_vars, ret, show_matte, frame_duration, frame,
                   frame_count, total_capture_time, total_segment_time,
                   total_output_time, elapsed, reports, captures, writes,
                   written, stage, slept, interval, overran>>

\* main.rs 167-205: write_frame, the frame counter and the statistics
WriteFrame ==
    /\ pc = "write"
    /\ writes' = writes + 1
    /\ written' = output_frame
    /\ \/ /\ pc' = Propagate("Failed to write frame").pc
          /\ ret' = Propagate("Failed to write frame").ret
          /\ stage' = Stage("write", "err")
          /\ UNCHANGED <<frame_count, total_output_time, elapsed, reports>>
       \/ /\ stage' = Stage("write", "ok")
          /\ total_output_time' = total_output_time + StageTime.output
          /\ elapsed' = elapsed + StageTime.output
          /\ frame_count' = frame_count + 1
          /\ reports' = IF stats_due(frame_count')
                        THEN Append(reports,
                                    Report(frame_count', total_capture_time,
                                           total_segment_time, total_output_time',
                                           model # None))
                        ELSE reports
          /\ pc' = Following("write")
          /\ ret' = ret
    /\ UNCHANGED <<codec_vars, engine_vars, show_matte, frame_duration, frame, output_frame,
                   total_capture_time, total_segment_time, captures, slept,
                   interval, overran>>

\* main.rs 207-211: frame rate limiting, then the next iteration
Pace ==
    /\ pc = "pace"
    /\ \E extra \in Extras :
       LET e == elapsed + extra
           d == sleep_for(e, frame_duration)
       IN /\ elapsed' = e
          /\ slept' = d
          /\ interval' = IF d = None THEN e ELSE e + Unwrap(d)
          /\ overran' = (overran \/ e > frame_duration)
    /\ pc' = Following("pace")
    /\ UNCHANGED <<codec_vars, engine_vars, ret, show_matte, frame_duration, frame,
                   output_frame, frame_count, total_capture_time,
                   total_segment_time, total_output_time, reports, captures,
                   writes, written, stage>>

PipeNext == CaptureFrame \/ SegmentFrame \/ Passthrough \/ WriteFrame \/ Pace

PipeSpec == PipeInit /\ [][PipeNext]_vars

\* ----------------------------------------------------- pipeline properties
\* C7: a failed stage ends run_pipeline with that error.  A failed capture
\* is followed by no segment and no write for that iteration, a failed
\* segment by no write for that frame, a failed write leaves the frame
\* counter alone; and after the failure nothing more is captured, segmented
\* or written.
C7_FailureIsFatal ==
    /\ [](stage.res = "err" =>
            /\ pc = "done"
            /\ stage.op = "capture" =>
                 /\ ret = Some("Failed to capture frame")
                 /\ writes = captures /\ frame_count = captures
                 /\ segments = IF model = None THEN 0 ELSE captures
            /\ stage.op = "segment" =>
                 /\ ret = Some("Failed to segment frame")
                 /\ segments = captures
                 /\ writes = captures - 1 /\ frame_count = captures - 1
            /\ stage.op = "write" =>
                 /\ ret = Some("Failed to write frame")
                 /\ writes = captures
                 /\ frame_count = writes - 1)
    /\ [][stage.res = "err" => UNCHANGED <<stage, captures, segments, writes, pc, ret>>]_vars

C7_Witness ==
    /\ stage.res = "err" /\ stage.op = "segment"
    /\ pc = "done" /\ ret = Some("Failed to segment frame")
    /\ writes >= 1 /\ captures = writes + 1

\* C8: with no model, whatever show_matte is, every captured frame is
\* written once, unmodified and in capture order: when N frames have been
\* captured and the loop is back at its start, the sink has received N
\* write_frame calls, and the k-th call carried the k-th captured frame.
C8_Passthrough ==
    model = None =>
        /\ pc \in {"pace", "capture"} => writes = captures
        /\ pc \in {"segment", "write"} => writes = captures - 1
        /\ (writes > 0 /\ pc \in {"pace", "capture", "done"}) =>
             \/ stage.op = "capture" /\ stage.res = "err"
             \/ /\ written = frame
                /\ written \in {Some(f) : f \in CapturedFrames(writes)}
        /\ written # None => Unwrap(written).seq = writes

C8_Witness ==
    /\ model = None /\ show_matte
    /\ pc = "capture" /\ captures = 3 /\ writes = 3
    /\ written = frame /\ Unwrap(written).seq = 3

\* C9: a statistics report is emitted exactly at frames 30, 60, 90, ...: one
\* report per multiple of 30 written so far, none at any other frame, and
\* the frame counter reported is the number of frames written.
C9_StatsEvery30 ==
    /\ Len(reports) = frame_count \div 30
    /\ \A i \in 1..Len(reports) : reports[i].frame = 30 * i
    /\ pc = "pace" => (frame_count = writes /\ frame_count = captures)
    /\ frame_count \in {writes, writes - 1}

C9_Witness ==
    /\ Len(reports) = 2 /\ frame_count = 60 /\ pc = "pace"
    /\ reports[2].frame = 60

\* C10: after every completed iteration the loop has slept for exactly
\* (period - elapsed) when elapsed < period and has not slept otherwise, so
\* the iteration lasted at least one period; this is so whether or not an
\* earlier iteration overran, and every iteration still captures and writes
\* one frame.
C10_Pacing ==
    (pc = "capture" /\ frame_count > 0) =>
        /\ elapsed < frame_duration => slept = Some(frame_duration - elapsed)
        /\ elapsed >= frame_duration => slept = None
        /\ interval >= frame_duration
        /\ interval = IF elapsed < frame_duration THEN frame_duration ELSE elapsed
        /\ captures = frame_count /\ writes = frame_count

C10_Witness ==
    /\ pc = "capture" /\ frame_count > 1 /\ overran
    /\ elapsed < frame_duration
    /\ slept = Some(frame_duration - elapsed)

\* Pixels at which whole-image statements are checked on large frames
SamplePoints(w, h) ==
    {<<0, 0>>, <<w - 1, 0>>, <<0, h - 1>>, <<w - 1, h - 1>>,
     <<1, 2>>, <<w \div 2, h \div 3>>, <<w - 2, h \div 2>>}

\* C11: with a model and show_matte, the frame handed to write_frame has the
\* captured frame's width and height, each pixel (x, y) has all three
\* channels equal to matte[y * width + x] * 255 clamped to [0, 255] and
\* truncated, for the matte segment returned, and y * width + x is always
\* inside the matte.
C11_MatteShown ==
    /\ (model # None /\ show_matte /\ stage.op = "write") =>
         LET F == Unwrap(written)
             C == Unwrap(frame)
             m == Unwrap(last.value)
         IN /\ F.width = C.width /\ F.height = C.height
            /\ C.width * C.height <= m.len
            /\ \A p \in SamplePoints(C.width, C.height) :
                 LET idx == p[2] * C.width + p[1]
                     g == Gray(MatteAt(m, idx))
                 IN idx < m.len /\ PixelAt(F, p[1], p[2]) = <<g, g, g>>
    /\ (show_matte /\ stage.op = "segment" /\ stage.res = "ok") => pc # "panicked"

C11_Witness ==
    /\ model # None /\ show_matte /\ stage.op = "write" /\ stage.res = "ok"
    /\ Unwrap(written).width = 640 /\ Unwrap(written).height = 480
    /\ Unwrap(last.value).resized # <<>>
    /\ \E p \in SamplePoints(640, 480) :
         PixelAt(Unwrap(written), p[1], p[2])[1] \in 1..254

\* C12: with a model and show_matte off, every iteration calls segment once,
\* on the frame just captured, and hands write_frame that captured frame
\* unmodified; segment has been called once per captured frame.
C12_SegmentEveryFrame ==
    (model # None /\ ~show_matte) =>
        /\ segments = IF pc = "segment" THEN captures - 1 ELSE captures
        /\ stage.op \in {"segment", "write"} => last.frame = frame
        /\ stage.op = "write" =>
             /\ written = frame
             /\ Unwrap(written).seq = writes
             /\ writes = captures /\ segments = writes
             /\ last.op = "segment" /\ last.result = "ok"

C12_Witness ==
    /\ model # None /\ ~show_matte
    /\ stage.op = "write" /\ stage.res = "ok"
    /\ segments = 3 /\ captures = 3 /\ writes = 3
    /\ written = frame /\ last.frame = frame
    /\ \A i \in 1..4 : Unwrap(Hidden(Eng)[i]).inv = 3

\* What session.run returned is not six values with a rank-4 alpha matte
\* and rank-4 hidden states
Malformed(outs) ==
    \/ Len(outs) < 6
    \/ \E j \in 2..6 : Len(outs[j].shape) # 4

\* C13 (as claimed): when session.run fails, returns fewer than six
\* outputs, or returns an alpha matte or hidden state whose rank is not 4,
\* segment returns an error to its caller; it neither panics nor succeeds.
C13_MalformedIsError ==
    (last.op = "segment" /\ last.fed # None /\ Malformed(last.outputs))
        => last.result = "err"

\* C14: a successful segment call returns a matte of exactly width * height
\* elements of the frame it was given, whether the alpha output has the
\* frame's resolution or another one.
C14_MatteLength ==
    (last.op = "segment" /\ last.result = "ok") =>
        /\ last.value # None
        /\ Unwrap(last.value).len = Unwrap(last.frame).width * Unwrap(last.frame).height

C14_Witness ==
    /\ last.op = "segment" /\ last.result = "ok"
    /\ Unwrap(last.frame).width = 640 /\ Unwrap(last.frame).height = 480
    /\ last.outputs[2].shape = <<1, 1, 100, 100>>
    /\ Unwrap(last.value).len = 307200
    /\ last.after = "segment" /\ last.before = Absent

\* ------------------------------------- CodecSpec: the conversions alone
\* Small images and mattes, every pixel and element of which is looked at:
\* widths odd and even, camera content and the solid colours red and black.
CodecDims == {<<w, h>> : w \in 1..MaxSide, h \in 1..MaxSide}
CodecPixels == {<<"cam", 1>>, <<"solid", <<255, 0, 0>>>>, <<"solid", <<0, 0, 0>>>>}
CodecFrames == {Frame(d[1], d[2], p, 0) : d \in CodecDims, p \in CodecPixels}
CodecMattes == {Matte(d[1] * d[2], inv, <<>>) : d \in CodecDims, inv \in {1, 4}}
\* The target sizes tried for a matte of size d: its own, the transposed
\* one and 2 x 2
Targets(d) == {d, <<d[2], d[1]>>, <<2, 2>>}
\* The resolutions a sink is opened with: odd and even widths
SinkDims == {<<1, 1>>, <<2, 2>>, <<3, 2>>}
IoOutcomes == {[ok |-> TRUE, n |-> 0], [ok |-> FALSE, n |-> 0], [ok |-> FALSE, n |-> 3]}

Conversion(op, arg, dims, result, again) ==
    [op |-> op, arg |-> arg, dims |-> dims, result |-> result, again |-> again]

\* The matte the previous postprocess_matte call handed back, if it is one
\* the caller can pass on as it is
Returned ==
    IF call.op = "postprocess_matte" /\ call.result[1] = "ok"
       /\ call.result[2].resized = <<>>
    THEN {call.result[2]} ELSE {}

CodecInit ==
    /\ model = Some(RobustVideoMatting_new)
    /\ last = NoCall
    /\ segments = 0
    /\ reported_size = None
    /\ show_matte = FALSE
    /\ frame_duration = 1000000 \div DefaultFps
    /\ InitPipeVars("client")
    /\ sink \in {Some(V4L2Output_new(d[1], d[2])) : d \in SinkDims}
    /\ call = NoConversion

\* Engines of several input sizes, the one new builds among them; the
\* others make the divisions inexact
EngineSizes == {<<DefaultWidth, DefaultHeight>>, <<100, 60>>, <<30, 44>>}
Engines == {[RobustVideoMatting_new EXCEPT !.width = d[1], !.height = d[2]] : d \in EngineSizes}

InitHiddenStates ==
    /\ \E self \in Engines :
          call' = Conversion("init_hidden_states", self, input_size(self),
                             init_hidden_states(self), FALSE)
    /\ UNCHANGED <<engine_vars, pipe_vars, sink>>

Preprocess ==
    /\ \E f \in CodecFrames, td \in SinkDims :
       \E p \in {Preprocessor_new(td[1], td[2])} :
          call' = Conversion("preprocess", f, <<p.target_width, p.target_height>>,
                             preprocess(p, f), FALSE)
    /\ UNCHANGED <<engine_vars, pipe_vars, sink>>

PostprocessMatte ==
    /\ \E m \in CodecMattes \cup Returned, md \in CodecDims :
       \E td \in Targets(md) :
          call' = Conversion("postprocess_matte", m, <<md[1], md[2], td[1], td[2]>>,
                             postprocess_matte(m, md[1], md[2], td[1], td[2]),
                             m \in Returned)
    /\ UNCHANGED <<engine_vars, pipe_vars, sink>>

RgbToYuyv ==
    /\ \E f \in CodecFrames :
          call' = Conversion("rgb_to_yuyv", f, <<f.width, f.height>>,
                             rgb_to_yuyv(f), FALSE)
    /\ UNCHANGED <<engine_vars, pipe_vars, sink>>

SinkWriteFrame ==
    /\ \E f \in CodecFrames, io \in IoOutcomes :
       \E o \in {write_frame(Unwrap(sink), f, io)} :
          call' = Conversion("write_frame", f, resolution(Unwrap(sink)), o, FALSE)
    /\ UNCHANGED <<engine_vars, pipe_vars, sink>>

CodecNext == PostprocessMatte \/ RgbToYuyv \/ SinkWriteFrame \/ InitHiddenStates
             \/ Preprocess

CodecSpec == CodecInit /\ [][CodecNext]_vars

\* C15: postprocess_matte(m, w, h, w, h) hands back exactly m, whatever m's
\* length and values: no element is quantised or clamped, so a matte that
\* went through it before comes back the same again.
C15_IdentityWhenEqual ==
    (call.op = "postprocess_matte" /\ call.dims[1] = call.dims[3]
                                   /\ call.dims[2] = call.dims[4]) =>
        /\ call.result = <<"ok", call.arg>>
        /\ \A idx \in 0..(call.arg.len - 1) :
              MatteAt(call.result[2], idx) = MatteAt(call.arg, idx)

C15_Witness ==
    /\ call.op = "postprocess_matte" /\ call.again
    /\ call.dims = <<2, 2, 2, 2>>
    /\ call.arg.len = 4
    /\ \E idx \in 0..3 : MatteAt(call.arg, idx) > 255000
    /\ call.result = <<"ok", call.arg>>

\* C16: rgb_to_yuyv gives, for every row and every horizontal pair (p0, p1),
\* the bytes [Y(p0), (U(p0)+U(p1)) div 2, Y(p1), (V(p0)+V(p1)) div 2], rows
\* and pairs in row-major order, the last pixel of a row of odd width being
\* paired with itself; that is height * ceil(width/2) * 4 bytes,
\* width * height * 2 at even width.
C16_YuyvPairs ==
    call.op = "rgb_to_yuyv" =>
        LET f == call.arg
            out == call.result
            pairs == (f.width + 1) \div 2
        IN /\ Len(out) = f.height * pairs * 4
           /\ (f.width % 2 = 0) => (Len(out) = f.width * f.height * 2)
           /\ \A y \in 0..(f.height - 1), k \in 0..(pairs - 1) :
                LET p0 == PixelAt(f, 2 * k, y)
                    p1 == IF 2 * k + 1 < f.width THEN PixelAt(f, 2 * k + 1, y) ELSE p0
                    c0 == rgb_to_yuv(p0[1], p0[2], p0[3])
                    c1 == rgb_to_yuv(p1[1], p1[2], p1[3])
                    base == (y * pairs + k) * 4
                IN SubSeq(out, base + 1, base + 4) =
                       <<c0[1], (c0[2] + c1[2]) \div 2, c1[1], (c0[3] + c1[3]) \div 2>>

C16_Witness ==
    /\ call.op = "rgb_to_yuyv"
    /\ call.arg.width = 3 /\ call.arg.height = 2 /\ call.arg.px = <<"cam", 1>>
    /\ Len(call.result) = 16
    /\ call.result[1] # call.result[3]
    /\ call.result[5] = call.result[7]
    /\ call.result[5] # 0

C18_WritesSinkResolution ==
    call.op = "write_frame" =>
        LET f == call.arg
            o == call.result
            self == Unwrap(sink)
            differ == <<f.width, f.height>> # <<self.width, self.height>>
        IN /\ <<o.encoded.width, o.encoded.height>> = resolution(self)
           /\ (o.encoded.px[1] = "resized") <=> differ
           /\ ~differ => o.encoded = f
           /\ o.result = "ok" =>
                 Len(o.device) = self.height * ((self.width + 1) \div 2) * 4

C18_Witness ==
    /\ call.op = "write_frame" /\ call.result.result = "ok"
    /\ <<call.arg.width, call.arg.height>> = <<2, 3>>
    /\ resolution(Unwrap(sink)) = <<3, 2>>
    /\ call.result.encoded.px[1] = "resized"
    /\ Len(call.result.device) = 16

\* C19: in every iteration capture_frame, segment (with a model) and
\* write_frame are called in that order, each at most once, and the next
\* capture_frame is not called before the previous iteration's write_frame
\* has returned Ok and its rate limiting is over.
C19_StageOrder ==
    /\ [](/\ writes <= captures /\ captures <= writes + 1
          /\ model # None => (writes <= segments /\ segments <= captures)
          /\ model = None => segments = 0)
    /\ [][/\ stage'.n # stage.n /\ stage'.op = "capture" =>
               /\ writes = captures /\ frame_count = captures
               /\ model # None => segments = captures
               /\ captures > 0 => (/\ stage = [n |-> stage.n, op |-> "write", res |-> "ok"]
                                   /\ interval > 0)
          /\ segments' # segments =>
               /\ segments' = segments + 1 /\ segments' = captures
               /\ writes = captures - 1
               /\ stage.op = "capture" /\ stage.res = "ok"
               /\ stage'.n = stage.n + 1 /\ stage'.op = "segment"
          /\ writes' # writes =>
               /\ writes' = writes + 1 /\ writes' = captures
               /\ stage.res = "ok"
               /\ stage.op = IF model = None THEN "capture" ELSE "segment"
               /\ model # None => segments = captures
               /\ stage'.n = stage.n + 1 /\ stage'.op = "write"
          /\ stage'.n # stage.n => stage'.n = stage.n + 1]_vars

C19_Witness ==
    /\ model # None /\ pc = "segment"
    /\ captures = 3 /\ segments = 2 /\ writes = 2 /\ frame_count = 2
    /\ stage = [n |-> 7, op |-> "capture", res |-> "ok"]

\* C20: after construction and after every segment call, successful or
\* failing, and every reset_state call, r1, r2, r3 and r4 are all absent or
\* all present; hence no segment call panics on the unwrap of r1..r4 that
\* follows the test of r1 alone.
C20_AllFourOrNone ==
    /\ \/ \A i \in 1..4 : Hidden(Eng)[i] = None
       \/ \A i \in 1..4 : Hidden(Eng)[i] # None
    /\ ~(last.op = "segment" /\ last.result = "panic" /\ last.fed = None)

C20_Witness ==
    /\ last.op = "segment" /\ last.result = "err" /\ last.fed # None
    /\ last.after = "reset_state" /\ last.pre = Absent
    /\ \A i \in 1..4 : Hidden(Eng)[i] # None
    /\ Hidden(Eng)[1] # Hidden(init_hidden_states(Eng))[1]
    /\ Hidden(Eng)[2] = Hidden(init_hidden_states(reset_state(Eng)))[2]

\* C21: init_hidden_states stores four all-zero tensors of shapes
\* (1,16,h,w), (1,20,h/2,w/2), (1,24,h/4,w/4), (1,28,h/8,w/8), where h and w
\* are the input height and width times the ratio, rounded down, and the
\* halvings round down too; at 512 x 512 and ratio 0.25 the sizes are 128,
\* 64, 32 and 16.
C21_HiddenShapes ==
    call.op = "init_hidden_states" =>
        LET self == call.arg
            r == Hidden(call.result)
            num == self.downsample_ratio[1]
            den == self.downsample_ratio[2]
            Floor(a, b, q) == q * b <= a /\ a < (q + 1) * b
            channels == <<16, 20, 24, 28>>
            shape(i) == Unwrap(r[i]).shape
        IN /\ \A i \in 1..4 :
                /\ r[i] # None
                /\ Unwrap(r[i]).inv = 0
                /\ Len(shape(i)) = 4
                /\ shape(i)[1] = 1 /\ shape(i)[2] = channels[i]
           /\ Floor(self.height * num, den, shape(1)[3])
           /\ Floor(self.width * num, den, shape(1)[4])
           /\ \A i \in 2..4 :
                /\ Floor(shape(i - 1)[3], 2, shape(i)[3])
                /\ Floor(shape(i - 1)[4], 2, shape(i)[4])
           /\ input_size(self) = <<512, 512>> =>
                \A i \in 1..4 : <<shape(i)[3], shape(i)[4]>> =
                                   <<<<128, 128>>, <<64, 64>>, <<32, 32>>, <<16, 16>>>>[i]

C21_Witness ==
    /\ call.op = "init_hidden_states"
    /\ call.dims = <<30, 44>>
    /\ Hidden(call.arg) = Absent
    /\ Unwrap(call.result.r1).shape = <<1, 16, 11, 7>>
    /\ Unwrap(call.result.r2).shape = <<1, 20, 5, 3>>
    /\ Unwrap(call.result.r4).shape = <<1, 28, 1, 0>>

\* C22: preprocess gives a tensor of shape (1, 3, target_height,
\* target_width) whose element [0, c, y, x] is channel c (red, green, blue)
\* of pixel (x, y) of the frame resized to the target, divided by 255, hence
\* within [0, 1]; a frame that has the target resolution is not resized and
\* its own pixels are used.
C22_InputTensor ==
    call.op = "preprocess" =>
        LET f == call.arg
            t == call.result
            tw == call.dims[1]
            th == call.dims[2]
            same == <<f.width, f.height>> = <<tw, th>>
            used == IF same THEN f ELSE resize(f, tw, th)
        IN /\ t.shape = <<1, 3, th, tw>>
           /\ t.resized = ~same
           /\ \A c \in 0..2, y \in 0..(th - 1), x \in 0..(tw - 1) :
                /\ TensorAt(t, c, y, x) = PixelAt(used, x, y)[c + 1] * 1000
                /\ TensorAt(t, c, y, x) >= 0 /\ TensorAt(t, c, y, x) <= 255000
           /\ (same /\ f.px = <<"cam", 1>>) =>
                 \A c \in 0..2, y \in 0..(th - 1), x \in 0..(tw - 1) :
                    TensorAt(t, c, y, x) = CamPixel(1, x, y)[c + 1] * 1000

C22_Witness ==
    /\ call.op = "preprocess"
    /\ <<call.arg.width, call.arg.height>> = <<2, 3>> /\ call.arg.px = <<"cam", 1>>
    /\ call.dims = <<3, 2>>
    /\ call.result.shape = <<1, 3, 2, 3>>
    /\ call.result.resized
    /\ TensorAt(call.result, 0, 1, 2) # TensorAt(call.result, 2, 1, 2)

\* ------------------------------------------------ LiveSpec: the loop runs
\* The thread of run_pipeline keeps running: whenever a step of the loop is
\* possible, one is eventually taken.
LiveSpec == PipeSpec /\ WF_vars(PipeNext)

\* A capture_frame, segment or write_frame call failed or did not return
StageFailed == stage.res # "ok" \/ (pc = "panicked" /\ stage.op # "none")

\* C23: run_pipeline returns only with the error of a failed capture_frame,
\* segment or write_frame, never with a success value; and as long as no
\* stage call fails, every frame number N >= 1 is eventually written.
C23_RunsForever ==
    /\ [](pc = "done" =>
            /\ stage.res = "err"
            /\ ret \in {Some("Failed to capture frame"),
                        Some("Failed to segment frame"),
                        Some("Failed to write frame")})
    /\ [](pc # "done" => ret = None)
    /\ ([](~StageFailed) =>
            \A N \in {1, MaxFrames} : <>(frame_count >= N /\ writes >= N))

====
